---- MODULE Spec2Model ----
(***************************************************************************)
(* Model of the mixture-distribution statistics engine of src/src/util.py  *)
(* (DeepExtremeMixtureModel): the Bernoulli / truncated-lognormal /        *)
(* generalized-Pareto mixture, its parameter constraints, the class labels *)
(* and the metric reducers.                                                *)
(*                                                                         *)
(* Tensors are sequences of floating point values.  A value is NaN, an     *)
(* infinity, or a finite real  n/100 + SUM c_a * a  where n is an integer  *)
(* (the value in hundredths) and every a is an uninterpreted term (a       *)
(* transcendental function applied to values, or a product or quotient     *)
(* that is not exact in hundredths).  The IEEE rules the code relies on    *)
(* (NaN propagation, 0/0, 0*inf, comparisons with NaN, pow(1, y)) are      *)
(* computed; the transcendental functions are kept symbolic.               *)
(***************************************************************************)
EXTENDS Integers, Sequences, FiniteSets, TLC

VARIABLES
    samples,         \* the caller's observation tensor (metrics: first input)
    threshes,        \* the caller's threshold tensor (metrics: second input)
    actual_threshes, \* the evaluation thresholds handed to all_cdf
    zero_probs,      \* binaries[:, 0] (raw before all_constraints)
    excess_probs,    \* binaries[:, 1] (raw before all_constraints)
    gpd_stats,       \* per cell <<xi, sigma>> (raw <<k1, k2>> before constraints)
    moderate_stats,  \* per cell <<mu, var>>
    flags,           \* the scalar arguments of the last call
    op,              \* the function called last ("none" before any call)
    out,             \* what the last call returned or raised
    depth,           \* Python call depth of the call in progress (0: none)
    samples_in,      \* the samples tensor as it was handed to the last call
    threshes_in      \* the threshold tensor as it was handed to the last call

vars == <<samples, threshes, actual_threshes, zero_probs, excess_probs,
          gpd_stats, moderate_stats, flags, op, out, depth, samples_in, threshes_in>>

params == <<actual_threshes, zero_probs, excess_probs, gpd_stats, moderate_stats>>

(***************************************************************************)
(* Bounds of the model.                                                    *)
(***************************************************************************)
BatchLen == 2
RecursionLimit == 3

Idx == 1..BatchLen

(***************************************************************************)
(* Floating point values.                                                  *)
(***************************************************************************)
NoTerms == <<>>

NaN == [k |-> "nan", n |-> 0, t |-> NoTerms]
PosInf == [k |-> "inf", n |-> 1, t |-> NoTerms]
NegInf == [k |-> "inf", n |-> -1, t |-> NoTerms]
\* a value the symbolic arithmetic cannot determine (the sign of a term of
\* unknown sign times an infinity); it is never NaN and equals no expected value
Unk == [k |-> "unk", n |-> 0, t |-> NoTerms]
\* Python's None for an optional argument that is not supplied
None == [k |-> "none", n |-> 0, t |-> NoTerms]

Fin(n, t) == [k |-> "fin", n |-> n, t |-> t]
Num(n) == Fin(n, NoTerms)
Atom(f, args) == Fin(0, [x \in {[f |-> f, a |-> args]} |-> 1])

Zero == Num(0)
One == Num(100)
MinusOne == Num(-100)
Half == Num(50)
Two == Num(200)

isnan(x) == x.k = "nan"
isinf(x) == x.k = "inf"
IsFin(x) == x.k = "fin"
IsNum(x) == x.k = "fin" /\ DOMAIN x.t = {}

\* the sign of a value: -1, 0, 1, or 2 when the model cannot tell
SignMul(a, b) == IF a = 0 \/ b = 0 THEN 0 ELSE IF a = 2 \/ b = 2 THEN 2 ELSE a * b

RECURSIVE Sign(_)
Sign(x) ==
    IF x.k = "inf" THEN x.n
    ELSE IF x.k # "fin" THEN 2
    ELSE IF DOMAIN x.t = {} THEN (IF x.n > 0 THEN 1 ELSE IF x.n < 0 THEN -1 ELSE 0)
    ELSE LET AtomSign(a) ==
                 IF a.f \in {"mul", "div"} THEN SignMul(Sign(a.a[1]), Sign(a.a[2]))
                 ELSE IF a.f \in {"erf"} THEN Sign(a.a[1])
                 ELSE IF a.f \in {"exp", "pow", "sqrt2", "eps", "sigmoid", "softplus"} THEN 1
                 ELSE 2
             parts == {SignMul(IF x.t[a] > 0 THEN 1 ELSE -1, AtomSign(a)) : a \in DOMAIN x.t}
                      \cup (IF x.n > 0 THEN {1} ELSE IF x.n < 0 THEN {-1} ELSE {})
         IN IF parts = {1} THEN 1 ELSE IF parts = {-1} THEN -1 ELSE 2

(***************************************************************************)
(* Bounds of a value, in hundredths: lo and hi enclose it, ls / hs say     *)
(* that the bound is not attained.  Unbounded stands for no bound.         *)
(***************************************************************************)
Unbounded == 1000 * 1000 * 1000

Abs(n) == IF n < 0 THEN -n ELSE n
Clamp(n) == IF n > Unbounded THEN Unbounded ELSE IF n < -Unbounded THEN -Unbounded ELSE n

Rng(lo, ls, hi, hs) == [lo |-> lo, ls |-> ls, hi |-> hi, hs |-> hs]
AnyRange == Rng(-Unbounded, FALSE, Unbounded, FALSE)

\* a lower and an upper bound of c * v / 100; a product too large for the
\* integers of TLC is widened
MulLo(c, v) ==
    IF v = 0 \/ c = 0 THEN 0
    ELSE IF Abs(v) >= Unbounded \/ Abs(v) > (2 * Unbounded) \div Abs(c)
         THEN (IF (c > 0) = (v > 0) THEN (IF Abs(v) >= Unbounded THEN Unbounded ELSE 0)
               ELSE -Unbounded)
    ELSE Clamp((c * v) \div 100)

MulHi(c, v) ==
    IF v = 0 \/ c = 0 THEN 0
    ELSE IF Abs(v) >= Unbounded \/ Abs(v) > (2 * Unbounded) \div Abs(c)
         THEN (IF (c > 0) = (v > 0) THEN Unbounded
               ELSE (IF Abs(v) >= Unbounded THEN -Unbounded ELSE 0))
    ELSE Clamp(-((-(c * v)) \div 100))

\* the range of c/100 times a value of range r
RangeScale(r, c) ==
    IF c = 0 THEN Rng(0, FALSE, 0, FALSE)
    ELSE IF c > 0 THEN Rng(MulLo(c, r.lo), r.ls, MulHi(c, r.hi), r.hs)
    ELSE Rng(MulLo(c, r.hi), r.hs, MulHi(c, r.lo), r.ls)

RangeAdd(r, q) ==
    Rng(IF r.lo <= -Unbounded \/ q.lo <= -Unbounded THEN -Unbounded ELSE Clamp(r.lo + q.lo),
        r.ls \/ q.ls,
        IF r.hi >= Unbounded \/ q.hi >= Unbounded THEN Unbounded ELSE Clamp(r.hi + q.hi),
        r.hs \/ q.hs)

RECURSIVE Range(_)
RECURSIVE RangeTerms(_, _)
\* the range of the combination of the terms S of the finite value x
RangeTerms(x, S) ==
    IF S = {} THEN Rng(Clamp(x.n), FALSE, Clamp(x.n), FALSE)
    ELSE LET a == CHOOSE b \in S : TRUE
             arg(i) == a.a[i]
             ra == IF a.f = "sigmoid" THEN Rng(0, TRUE, 100, TRUE)
                   ELSE IF a.f = "erf" THEN Rng(-100, TRUE, 100, TRUE)
                   ELSE IF a.f = "eps" THEN Rng(0, TRUE, 1, TRUE)
                   ELSE IF a.f = "sqrt2" THEN Rng(141, TRUE, 142, TRUE)
                   ELSE IF a.f = "exp" /\ arg(1).k = "fin" /\ DOMAIN arg(1).t = {}
                        THEN (IF arg(1).n <= 0 THEN Rng(0, TRUE, 100, FALSE)
                              ELSE IF arg(1).n <= 100 THEN Rng(100, FALSE, 272, TRUE)
                              ELSE Rng(271, TRUE, Unbounded, FALSE))
                   ELSE IF a.f \in {"exp", "softplus"} THEN Rng(0, TRUE, Unbounded, FALSE)
                   ELSE IF a.f = "mul" /\ arg(1).k = "fin" /\ DOMAIN arg(1).t = {}
                        THEN RangeScale(Range(arg(2)), arg(1).n)
                   ELSE IF a.f = "mul" /\ arg(2).k = "fin" /\ DOMAIN arg(2).t = {}
                        THEN RangeScale(Range(arg(1)), arg(2).n)
                   ELSE IF a.f = "div" /\ arg(2).k = "fin" /\ DOMAIN arg(2).t = {}
                           /\ arg(2).n > 0
                        THEN LET r == Range(arg(1))
                             IN Rng(IF Abs(r.lo) > Unbounded \div 100 THEN -Unbounded
                                    ELSE (r.lo * 100) \div arg(2).n,
                                    r.ls,
                                    IF Abs(r.hi) > Unbounded \div 100 THEN Unbounded
                                    ELSE -((-(r.hi * 100)) \div arg(2).n),
                                    r.hs)
                   ELSE AnyRange
         IN RangeAdd(RangeScale(ra, 100 * x.t[a]), RangeTerms(x, S \ {a}))

Range(x) ==
    IF x.k = "inf" THEN Rng(x.n * Unbounded, FALSE, x.n * Unbounded, FALSE)
    ELSE IF x.k # "fin" THEN AnyRange
    ELSE RangeTerms(x, DOMAIN x.t)


LinAdd(f, g) ==
    LET c(a) == (IF a \in DOMAIN f THEN f[a] ELSE 0) + (IF a \in DOMAIN g THEN g[a] ELSE 0)
        D == {a \in (DOMAIN f) \cup (DOMAIN g) : c(a) # 0}
    IN IF D = {} THEN NoTerms ELSE [a \in D |-> c(a)]

Neg(x) ==
    IF x.k = "inf" THEN [x EXCEPT !.n = -x.n]
    ELSE IF x.k # "fin" THEN x
    ELSE IF DOMAIN x.t = {} THEN Num(-x.n)
    ELSE Fin(-x.n, [a \in DOMAIN x.t |-> -x.t[a]])

Add(x, y) ==
    IF x.k = "unk" \/ y.k = "unk" THEN Unk
    ELSE IF isnan(x) \/ isnan(y) THEN NaN
    ELSE IF isinf(x) /\ isinf(y) THEN (IF x.n = y.n THEN x ELSE NaN)
    ELSE IF isinf(x) THEN x
    ELSE IF isinf(y) THEN y
    ELSE Fin(x.n + y.n, LinAdd(x.t, y.t))

Sub(x, y) == Add(x, Neg(y))

\* x < b, x <= b, x > b and x >= b, where the bounds of x - b decide it
SurelyLt(x, b) ==
    /\ ~isnan(x) /\ x.k # "unk"
    /\ LET r == Range(Sub(x, b)) IN r.hi < 0 \/ (r.hi = 0 /\ r.hs)
SurelyLe(x, b) == ~isnan(x) /\ x.k # "unk" /\ Range(Sub(x, b)).hi <= 0
SurelyGt(x, b) == SurelyLt(Neg(x), Neg(b))
SurelyGe(x, b) == SurelyLe(Neg(x), Neg(b))

SignedInf(s) == IF s = 1 THEN PosInf ELSE IF s = -1 THEN NegInf ELSE IF s = 0 THEN NaN ELSE Unk

Mul(x, y) ==
    IF x.k = "unk" \/ y.k = "unk" THEN Unk
    ELSE IF isnan(x) \/ isnan(y) THEN NaN
    ELSE IF isinf(x) \/ isinf(y) THEN SignedInf(SignMul(Sign(x), Sign(y)))
    ELSE IF x = Zero \/ y = Zero THEN Zero
    ELSE IF x = One THEN y
    ELSE IF y = One THEN x
    ELSE IF x = MinusOne THEN Neg(y)
    ELSE IF y = MinusOne THEN Neg(x)
    ELSE IF IsNum(x) /\ IsNum(y) /\ (x.n * y.n) % 100 = 0 THEN Num((x.n * y.n) \div 100)
    ELSE Atom("mul", <<x, y>>)

Div(x, y) ==
    IF x.k = "unk" \/ y.k = "unk" THEN Unk
    ELSE IF isnan(x) \/ isnan(y) THEN NaN
    ELSE IF y = Zero THEN SignedInf(Sign(x))
    ELSE IF isinf(y) THEN (IF isinf(x) THEN NaN ELSE Zero)
    ELSE IF isinf(x) THEN SignedInf(SignMul(Sign(x), Sign(y)))
    ELSE IF x = Zero THEN Zero
    ELSE IF y = One THEN x
    ELSE IF IsNum(x) /\ IsNum(y) /\ y.n > 0 /\ (x.n * 100) % y.n = 0
         THEN Num((x.n * 100) \div y.n)
    ELSE IF IsNum(x) /\ IsNum(y) /\ y.n < 0 /\ (x.n * 100) % (-y.n) = 0
         THEN Num(((-x.n) * 100) \div (-y.n))
    ELSE Atom("div", <<x, y>>)

Log(x) ==
    IF x.k = "unk" THEN Unk
    ELSE IF isnan(x) THEN NaN
    ELSE IF isinf(x) THEN (IF x.n = 1 THEN PosInf ELSE NaN)
    ELSE IF x = One THEN Zero
    ELSE IF Sign(x) = 0 THEN NegInf
    ELSE IF Sign(x) = -1 THEN NaN
    ELSE Atom("log", <<x>>)

\* float32 (torch.float): exp overflows to inf above log(FLT_MAX) = 88.72 and
\* underflows to 0 below log of half the smallest subnormal = -103.97
ExpOverflow == Num(8873)
ExpUnderflow == Num(-10400)

Exp(x) ==
    IF x.k = "unk" THEN Unk
    ELSE IF isnan(x) THEN NaN
    ELSE IF isinf(x) THEN (IF x.n = 1 THEN PosInf ELSE Zero)
    ELSE IF x = Zero THEN One
    ELSE IF SurelyGe(x, ExpOverflow) THEN PosInf
    ELSE IF SurelyLe(x, ExpUnderflow) THEN Zero
    ELSE Atom("exp", <<x>>)

Erf(x) ==
    IF x.k = "unk" THEN Unk
    ELSE IF isnan(x) THEN NaN
    ELSE IF isinf(x) THEN (IF x.n = 1 THEN One ELSE MinusOne)
    ELSE IF x = Zero THEN Zero
    ELSE Atom("erf", <<x>>)

\* x ** y as IEEE pow: pow(1, y) = 1 and pow(x, 0) = 1 for every y and x, NaN included
Pow(x, y) ==
    IF x.k = "unk" \/ y.k = "unk" THEN Unk
    ELSE IF x = One \/ y = Zero THEN One
    ELSE IF isnan(x) \/ isnan(y) THEN NaN
    ELSE IF y = One THEN x
    ELSE IF isinf(y) THEN Unk
    ELSE IF isinf(x) THEN (IF x.n = 1 THEN (IF Sign(y) = 1 THEN PosInf ELSE IF Sign(y) = -1 THEN Zero ELSE Unk) ELSE Unk)
    ELSE IF Sign(x) = 0 THEN (IF Sign(y) = 1 THEN Zero ELSE IF Sign(y) = -1 THEN PosInf ELSE Unk)
    ELSE IF Sign(x) = -1 THEN NaN
    ELSE Atom("pow", <<x, y>>)

\* comparisons: every comparison with NaN is False, except != which is True
Lt(x, y) ==
    /\ ~isnan(x) /\ ~isnan(y)
    /\ \/ (x = NegInf /\ y # NegInf)
       \/ (y = PosInf /\ x # PosInf)
       \/ (IsFin(x) /\ IsFin(y) /\ x.n < y.n)
Gt(x, y) == Lt(y, x)
Eq(x, y) == ~isnan(x) /\ ~isnan(y) /\ x = y
Ge(x, y) == Gt(x, y) \/ Eq(x, y)
Ne(x, y) == ~Eq(x, y)

\* a boolean mask entry used as a number
BoolNum(b) == IF b THEN One ELSE Zero

\* what a call returns or raises
Return(v) == [ok |-> TRUE, err |-> "", val |-> v]
Raise(e) == [ok |-> FALSE, err |-> e, val |-> <<>>]

(***************************************************************************)
(* Numeric constants of the source.                                        *)
(***************************************************************************)
\* eps=1e-6 of threshed_lognorm, trunc_lognorm_mean and gp_constraint2: too
\* small for hundredths, kept as a positive term
Eps6 == Atom("eps", <<Num(6)>>)
\* math.sqrt(2)
Sqrt2 == Atom("sqrt2", <<>>)
\* to_tensor(2 * 3.14159274)
TwoPi == Num(628)
\* the placeholder lognormal adds to samples that are exactly 0
ZeroPlaceholder == Num(1000)

(***************************************************************************)
(* Distribution primitives.                                                *)
(***************************************************************************)
norm_cdf(vals, mu, sigma) ==
    Mul(Half, Add(One, Erf(Div(Mul(Sub(vals, mu), Div(One, sigma)), Sqrt2))))

lognorm_cdf(vals, mu, var) ==
    Add(Half, Mul(Half, Erf(Div(Sub(Log(vals), mu), Mul(Pow(var, Half), Sqrt2)))))

gp_mean(xi, sigma, thresh) == Add(thresh, Div(sigma, Sub(One, xi)))

trunc_lognorm_mean(mu, var, upper) ==
    LET beta == Div(Sub(Log(upper), mu), Pow(var, Half))
        sigma == Pow(var, Half)
        scaling_factor == Div(norm_cdf(Sub(beta, sigma), Zero, One),
                              Add(Eps6, norm_cdf(beta, Zero, One)))
        exp == Exp(Add(mu, Div(var, Two)))
    IN Mul(exp, scaling_factor)

\* the samples tensor after lognormal's in-place  samples[samples == 0] += 10
lognormal_samples(smp) ==
    [i \in DOMAIN smp |-> IF Eq(smp[i], Zero) THEN Add(smp[i], ZeroPlaceholder) ELSE smp[i]]

\* the value lognormal returns (it reads the samples after the in-place change)
lognormal(smp, mu, var) ==
    LET s == lognormal_samples(smp)
        first_term(i) == Sub(Sub(Neg(Log(s[i])), Mul(Half, Log(var[i]))), Mul(Half, Log(TwoPi)))
        second_term(i) == Neg(Div(Pow(Sub(Log(s[i]), mu[i]), Two), Mul(Two, var[i])))
    IN [i \in DOMAIN smp |-> Add(first_term(i), second_term(i))]

threshed_lognorm(smp, thr, mu, var) ==
    LET ln == lognormal(smp, mu, var)
    IN [i \in DOMAIN smp |-> Sub(ln[i], Log(Add(lognorm_cdf(thr[i], mu[i], var[i]), Eps6)))]

\* the defaults 99999999. and -99999999. of threshed_lognorm_cdf: finite and
\* beyond every value of the model (held within the integer range of TLC)
DefaultUpper == Num(2000000000)
DefaultLower == Num(-2000000000)

\* lower and upper are None or a value; one entry of the tensor the call returns
\* faulty variant: the zero-denominator rule is applied first, so the two
\* clamps override it
threshed_lognorm_cdf_denom_first(val, mu, var, lower, upper) ==
    LET up == IF upper = None THEN DefaultUpper ELSE upper
        upper_cdf == IF upper = None THEN One ELSE lognorm_cdf(upper, mu, var)
        lo == IF lower = None THEN DefaultLower ELSE lower
        lower_cdf == IF lower = None THEN Zero ELSE lognorm_cdf(lower, mu, var)
        denom == Sub(upper_cdf, lower_cdf)
        out0 == IF Eq(denom, Zero) THEN Zero ELSE Div(lognorm_cdf(val, mu, var), denom)
        out1 == IF Lt(val, lo) THEN Zero ELSE out0
    IN IF Gt(val, up) THEN One ELSE out1

threshed_lognorm_cdf(val, mu, var, lower, upper) ==
    LET up == IF upper = None THEN DefaultUpper ELSE upper
        upper_cdf == IF upper = None THEN One ELSE lognorm_cdf(upper, mu, var)
        lo == IF lower = None THEN DefaultLower ELSE lower
        lower_cdf == IF lower = None THEN Zero ELSE lognorm_cdf(lower, mu, var)
        denom == Sub(upper_cdf, lower_cdf)
        out0 == Div(lognorm_cdf(val, mu, var), denom)
        out1 == IF Lt(val, lo) THEN Zero ELSE out0
        out2 == IF Gt(val, up) THEN One ELSE out1
    IN IF Eq(denom, Zero) THEN Zero ELSE out2

gpd_cdf(val, xi, sigma, thresh) ==
    Sub(One, Pow(Add(One, Div(Mul(xi, Sub(val, thresh)), sigma)), Div(MinusOne, xi)))

\* faulty variant: the masked positions keep the value computed for them
gpd_out_kept(mask, v) == v

\* gpd's final  out[~mask] = np.nan
gpd_out_masked(mask, v) == IF mask THEN v ELSE NaN

gpd(raw_samples, xi, sigma) ==
    LET I == DOMAIN raw_samples
        mask == [i \in I |-> ~isnan(raw_samples[i]) /\ ~isnan(xi[i])]
        smp == [i \in I |-> IF mask[i] THEN Add(Zero, raw_samples[i]) ELSE Zero]
        xi_is_zero == [i \in I |-> Eq(xi[i], Zero)]
        xi_nz(i) == Mul(Add(Log(sigma[i]),
                            Mul(Mul(Add(One, Div(One, xi[i])), BoolNum(mask[i])),
                                Log(Add(One, Div(Mul(xi[i], smp[i]), sigma[i]))))),
                        MinusOne)
        xi_z(i) == Mul(Add(Log(sigma[i]), Mul(Div(One, sigma[i]), smp[i])), MinusOne)
        out0 == [i \in I |-> Add(Zero, IF xi_is_zero[i] THEN xi_z(i) ELSE xi_nz(i))]
    IN [i \in I |-> gpd_out_masked(mask[i], out0[i])]

(***************************************************************************)
(* Mixture aggregator.                                                     *)
(***************************************************************************)
is_zero(s, flip) == IF flip THEN Ne(s, Zero) /\ ~isnan(s) ELSE Eq(s, Zero)

is_above_thresh(s, t, flip) ==
    IF flip THEN Lt(s, t) /\ Gt(s, Zero) ELSE Ge(s, t) /\ Gt(s, Zero)

\* faulty variant: the NaN placeholders of the inapplicable terms are not zero-filled
nan_to_num_keep(x) == x

nan_to_num(x) == IF isnan(x) THEN Zero ELSE x

nan_transfer(w_nan, wo_nan) ==
    LET out0 == Add(Zero, wo_nan)
    IN IF isnan(w_nan) THEN Add(out0, NaN) ELSE out0

\* <<out_zero, out_nonzero>> of one cell
loglik_zero(s, zp) ==
    LET out_zero == Add(Zero, Mul(BoolNum(is_zero(s, FALSE)), Log(zp)))
        out_nonzero == Add(Zero, Mul(BoolNum(is_zero(s, TRUE)), Log(Sub(One, zp))))
    IN IF isnan(s) THEN <<Add(out_zero, NaN), Add(out_nonzero, NaN)>>
       ELSE <<out_zero, out_nonzero>>

\* <<thresh_loglik, nthresh_loglik>> of one cell
loglik_above_thresh(s, t, above_thresh_prob) ==
    <<Mul(BoolNum(is_above_thresh(s, t, FALSE)), Log(above_thresh_prob)),
      Mul(BoolNum(is_above_thresh(s, t, TRUE)), Log(Sub(One, above_thresh_prob)))>>

\* faulty variant: the non-excess entries stay 0 instead of becoming NaN
loglik_excesses_zero(smp, thr) ==
    [i \in DOMAIN smp |->
        IF Gt(smp[i], thr[i]) THEN Add(Zero, Sub(smp[i], thr[i])) ELSE Zero]

\* the excesses tensor loglik hands to gpd
loglik_excesses(smp, thr) ==
    [i \in DOMAIN smp |->
        IF Gt(smp[i], thr[i]) THEN Add(Zero, Sub(smp[i], thr[i])) ELSE Div(Zero, Zero)]

\* faulty variant: the excess cells are not taken out of the moderate density
loglik_nz_inds_all(smp, thr) == [i \in DOMAIN smp |-> Gt(smp[i], Zero)]

\* the nonzeros tensor loglik hands to threshed_lognorm
loglik_nz_inds(smp, thr) == [i \in DOMAIN smp |-> Gt(smp[i], Zero) /\ ~Gt(smp[i], thr[i])]

loglik(smp, gstats, mstats, zps, eps, thr, mfunc) ==
    LET I == DOMAIN smp
        nan_inds == [i \in I |-> isnan(smp[i])]
        zl == [i \in I |-> loglik_zero(smp[i], zps[i])]
        tl == [i \in I |-> loglik_above_thresh(smp[i], thr[i], eps[i])]
        excess_loglik == gpd(loglik_excesses(smp, thr),
                             [i \in I |-> gstats[i][1]], [i \in I |-> gstats[i][2]])
        nz_inds == loglik_nz_inds(smp, thr)
        nonzeros == [i \in I |-> IF nz_inds[i] THEN Add(Zero, smp[i]) ELSE Zero]
        main0 == threshed_lognorm(nonzeros, thr,
                                  [i \in I |-> mstats[i][1]], [i \in I |-> mstats[i][2]])
        main_loglik == [i \in I |-> IF nz_inds[i] THEN main0[i] ELSE Div(Zero, Zero)]
        tr(i, v) == nan_to_num(nan_transfer(smp[i], v))
        total(i) == Add(Add(Add(Add(Add(tr(i, zl[i][1]), tr(i, zl[i][2])),
                                        tr(i, tl[i][2])), tr(i, main_loglik[i])),
                                tr(i, tl[i][1])), tr(i, excess_loglik[i]))
    IN IF mfunc # "lognormal" THEN Raise("ValueError")
       ELSE Return([i \in I |-> IF nan_inds[i] THEN Add(total(i), NaN) ELSE total(i)])

\* faulty variant: a sample of exactly 0 gets no zero mass
all_cdf_zero_inds_gt(smp) == [i \in DOMAIN smp |-> Gt(smp[i], Zero)]

\* the cells all_cdf gives the zero mass to
all_cdf_zero_inds(smp) == [i \in DOMAIN smp |-> Ge(smp[i], Zero)]

all_cdf(smp, gstats, mstats, zps, eps, eff, act, mfunc) ==
    LET I == DOMAIN smp
        nz_inds == [i \in I |-> Gt(smp[i], Zero)]
        excess_inds == [i \in I |-> Gt(smp[i], eff[i])]
        zero_inds == all_cdf_zero_inds(smp)
        o1 == [i \in I |-> IF zero_inds[i] THEN Add(Zero, zps[i]) ELSE Zero]
        o2 == [i \in I |->
                 IF nz_inds[i]
                 THEN Add(o1[i], Mul(Mul(Sub(One, zps[i]), Sub(One, eps[i])),
                                     threshed_lognorm_cdf(smp[i], mstats[i][1], mstats[i][2],
                                                          None, eff[i])))
                 ELSE o1[i]]
        o3 == [i \in I |->
                 IF excess_inds[i]
                 THEN Add(o2[i], Mul(Mul(Sub(One, zps[i]), eps[i]),
                                     gpd_cdf(smp[i], gstats[i][1], gstats[i][2], act[i])))
                 ELSE o2[i]]
    IN IF mfunc # "lognormal" THEN Raise("ValueError") ELSE Return(o3)

\* faulty variant: the GP term is skipped as soon as one threshold is infinite
uses_evt_any(thr) == ~(\E j \in DOMAIN thr : isinf(thr[j]))

\* not torch.all(torch.isinf(threshes)): the batch uses the extreme-value component
uses_evt(thr) == ~(\A j \in DOMAIN thr : isinf(thr[j]))

all_mean(gstats, mstats, zps, eps, thr, mfunc) ==
    LET I == DOMAIN thr
        weighted_zero == Zero
        weighted_moderate(i) ==
            Mul(trunc_lognorm_mean(mstats[i][1], mstats[i][2], thr[i]),
                Mul(Sub(One, zps[i]), Sub(One, eps[i])))
        weighted_excess(i) ==
            IF ~uses_evt(thr) THEN Zero
            ELSE Mul(gp_mean(gstats[i][1], gstats[i][2], thr[i]),
                     Mul(Sub(One, zps[i]), eps[i]))
    IN IF mfunc # "lognormal" THEN Raise("ValueError")
       ELSE Return([i \in I |-> Add(Add(weighted_zero, weighted_moderate(i)), weighted_excess(i))])

\* compute_class_labels: the labels it returns, and the caller's y afterwards
\* (to_np shares memory with the caller's array; y[nans] = 0 is in place)
class_labels_y(y) == [i \in DOMAIN y |-> IF isnan(y[i]) THEN Zero ELSE y[i]]

compute_class_labels(y, thr) ==
    LET I == DOMAIN y
        y1 == class_labels_y(y)
        l0 == [i \in I |-> One]
        l1 == [i \in I |-> IF Eq(y1[i], Zero) THEN Zero ELSE l0[i]]
        l2 == [i \in I |-> IF Gt(y1[i], thr[i]) THEN Two ELSE l1[i]]
    IN [i \in I |-> IF isnan(y[i]) THEN NaN ELSE l2[i]]

(***************************************************************************)
(* The callers' data.  Observations are rainfall amounts (missing ones NaN)*)
(* and thresholds are quantiles of them, or +inf when the extreme-value    *)
(* component is disabled; the parameters are constrained values.           *)
(***************************************************************************)
\* a missing observation, a dry cell, and amounts below, at and above Quantile
SampleVals == {NaN, Zero, Num(1), Num(2), Num(3)}
Quantile == Num(2)
ThreshVals == {Quantile, PosInf}
XiVals == {Zero, Num(10)}
SigmaVal == Two
MuVal == One
VarVal == Two
ZeroProbVal == Num(30)
ExcessProbVal == Num(20)
ModerateFuncs == {"lognormal", "gamma"}

Tensor(S) == [Idx -> S]

NoFlags == [moderate_func |-> "lognormal", continuous_evt |-> FALSE,
            thresholds_given |-> FALSE, initial_density_given |-> FALSE]

\* the evaluation threshold of a cell: the effective threshold when the
\* extreme-value component is enabled, the quantile when it is disabled
ActualOf(thr) == [i \in DOMAIN thr |-> IF isinf(thr[i]) THEN Quantile ELSE thr[i]]

InitMix ==
    /\ samples \in Tensor(SampleVals)
    /\ threshes \in Tensor(ThreshVals)
    /\ actual_threshes = ActualOf(threshes)
    /\ zero_probs = [i \in Idx |-> ZeroProbVal]
    /\ excess_probs = [i \in Idx |-> ExcessProbVal]
    /\ \E xi \in XiVals : gpd_stats = [i \in Idx |-> <<xi, SigmaVal>>]
    /\ moderate_stats = [i \in Idx |-> <<MuVal, VarVal>>]
    /\ flags = NoFlags
    /\ op = "none"
    /\ out = Return(<<>>)
    /\ depth = 0
    /\ samples_in = samples
    /\ threshes_in = threshes

CallLoglik ==
    /\ depth = 0
    /\ \E mf \in ModerateFuncs :
         /\ flags' = [NoFlags EXCEPT !.moderate_func = mf]
         /\ out' = loglik(samples, gpd_stats, moderate_stats, zero_probs, excess_probs,
                          threshes, mf)
    /\ op' = "loglik"
    /\ samples_in' = samples
    /\ threshes_in' = threshes
    /\ UNCHANGED <<samples, threshes, params, depth>>

CallAllCdf ==
    /\ depth = 0
    /\ \E mf \in ModerateFuncs :
         /\ flags' = [NoFlags EXCEPT !.moderate_func = mf]
         /\ out' = all_cdf(samples, gpd_stats, moderate_stats, zero_probs, excess_probs,
                           threshes, actual_threshes, mf)
    /\ op' = "all_cdf"
    /\ samples_in' = samples
    /\ threshes_in' = threshes
    /\ UNCHANGED <<samples, threshes, params, depth>>

CallAllMean ==
    /\ depth = 0
    /\ \E mf \in ModerateFuncs :
         /\ flags' = [NoFlags EXCEPT !.moderate_func = mf]
         /\ out' = all_mean(gpd_stats, moderate_stats, zero_probs, excess_probs, threshes, mf)
    /\ op' = "all_mean"
    /\ samples_in' = samples
    /\ threshes_in' = threshes
    /\ UNCHANGED <<samples, threshes, params, depth>>

\* to_np hands back the caller's own memory for a numpy array and for a
\* tensor on the CPU (a.cpu() is the tensor itself, numpy() a view of it), and
\* a copy for a tensor on another device
ToNpAliases == BOOLEAN

CallComputeClassLabels ==
    /\ depth = 0
    /\ out' = Return(compute_class_labels(samples, threshes))
    /\ \E aliases \in ToNpAliases :
         samples' = IF aliases THEN class_labels_y(samples) ELSE samples
    /\ op' = "compute_class_labels"
    /\ flags' = NoFlags
    /\ samples_in' = samples
    /\ threshes_in' = threshes
    /\ UNCHANGED <<threshes, params, depth>>

NextMix == CallLoglik \/ CallAllCdf \/ CallAllMean \/ CallComputeClassLabels

SpecMix == InitMix /\ [][NextMix]_vars

(***************************************************************************)
(* Properties of the mixture aggregator (SpecMix).                         *)
(***************************************************************************)
\* the density terms of one cell, evaluated on the bare sample
TruncLognormLogDensity(s, t, mu, var) == threshed_lognorm(<<s>>, <<t>>, <<mu>>, <<var>>)[1]
GpLogDensity(excess, xi, sigma) == gpd(<<excess>>, <<xi>>, <<sigma>>)[1]

LoglikReturned == op = "loglik" /\ out.ok
AllCdfReturned == op = "all_cdf" /\ out.ok
AllMeanReturned == op = "all_mean" /\ out.ok

\* C1: for a non-missing sample and non-NaN parameters loglik returns the sum
\* of exactly the applicable terms: log(zero_prob) alone for a sample of 0;
\* log(1-zero_prob) + log(1-excess_prob) + the truncated lognormal log-density
\* for 0 < sample < threshold; log(1-zero_prob) + log(excess_prob) + the GP
\* log-density at sample - threshold for sample > threshold.
C1_LoglikSumsApplicableTerms ==
    LoglikReturned =>
        \A i \in Idx :
            LET s == samples[i]
                t == threshes[i]
                nz == Log(Sub(One, zero_probs[i]))
            IN /\ Eq(s, Zero) => out.val[i] = Log(zero_probs[i])
               /\ (Gt(s, Zero) /\ Lt(s, t)) =>
                      out.val[i] = Add(Add(nz, Log(Sub(One, excess_probs[i]))),
                                       TruncLognormLogDensity(s, t, moderate_stats[i][1],
                                                              moderate_stats[i][2]))
               /\ Gt(s, t) =>
                      out.val[i] = Add(Add(nz, Log(excess_probs[i])),
                                       GpLogDensity(Sub(s, t), gpd_stats[i][1], gpd_stats[i][2]))

\* a batch with a dry cell or a moderate cell, and an excess cell
C1_Witness ==
    /\ LoglikReturned
    /\ \E i \in Idx : Gt(samples[i], threshes[i])
    /\ \E i \in Idx : Eq(samples[i], Zero) \/ (Gt(samples[i], Zero) /\ Lt(samples[i], threshes[i]))

\* C2: a positive sample exactly equal to its threshold is non-excess in every
\* term of loglik: it gets log(1-excess_prob) and the lognormal density, and
\* neither log(excess_prob) nor the GP density.
C2_AtThresholdIsNonExcess ==
    LoglikReturned =>
        \A i \in Idx :
            (Eq(samples[i], threshes[i]) /\ Gt(samples[i], Zero)) =>
                out.val[i] = Add(Add(Log(Sub(One, zero_probs[i])), Log(Sub(One, excess_probs[i]))),
                                 TruncLognormLogDensity(samples[i], threshes[i],
                                                        moderate_stats[i][1], moderate_stats[i][2]))

\* C3: the value loglik returns at a cell is NaN exactly when the sample of
\* that cell is NaN.
C3_LoglikNaNIffMissing ==
    LoglikReturned => \A i \in Idx : isnan(out.val[i]) <=> isnan(samples[i])

\* a batch that holds a missing and a non-missing observation
C3_Witness ==
    /\ LoglikReturned
    /\ \E i \in Idx : isnan(samples[i]) /\ isnan(out.val[i])
    /\ \E i \in Idx : ~isnan(samples[i])

\* C4: the value all_cdf returns at a cell is NaN exactly when the sample of
\* that cell is NaN.
C4_AllCdfNaNIffMissing ==
    AllCdfReturned => \A i \in Idx : isnan(out.val[i]) <=> isnan(samples[i])

\* the hurdle-model mean of a cell, and the GP term all_mean adds to it
HurdleMean(i) ==
    Mul(trunc_lognorm_mean(moderate_stats[i][1], moderate_stats[i][2], threshes[i]),
        Mul(Sub(One, zero_probs[i]), Sub(One, excess_probs[i])))
GpMeanTerm(i) ==
    Mul(gp_mean(gpd_stats[i][1], gpd_stats[i][2], threshes[i]),
        Mul(Sub(One, zero_probs[i]), excess_probs[i]))

\* other GP parameters a call could have been given
AltGpd == {<<Zero, Two>>, <<Num(10), Two>>, <<Num(-10), Num(300)>>, <<Num(50), One>>}
AltGpdStats == {[i \in Idx |-> g] : g \in AltGpd}
AltExcessProbs == {[i \in Idx |-> p] : p \in {Num(20), Num(50)}}

\* C6: all_mean adds the GP term (1-zero_prob)*excess_prob*gp_mean to every
\* cell exactly when some threshold of the batch is finite; when every
\* threshold is +inf the result is the hurdle mean, whatever gpd_stats holds.
C6_AllMeanGpTermIffSomeFinite ==
    AllMeanReturned =>
        IF \E j \in Idx : IsFin(threshes[j])
        THEN \A i \in Idx : out.val[i] = Add(HurdleMean(i), GpMeanTerm(i))
        ELSE /\ \A i \in Idx : out.val[i] = HurdleMean(i)
             /\ \A g \in AltGpdStats :
                    all_mean(g, moderate_stats, zero_probs, excess_probs, threshes,
                             "lognormal") = out

\* a batch that mixes a finite and an infinite threshold: the cell with the
\* infinite threshold has the GP term too (its mean is +inf)
C6_Witness ==
    /\ AllMeanReturned
    /\ \E i, j \in Idx : IsFin(threshes[i]) /\ isinf(threshes[j]) /\ out.val[j] = PosInf

\* C7 as stated: at a cell whose threshold is +inf, two calls of loglik or of
\* all_mean that differ only in excess_probs and gpd_stats return the same
\* value for the cell.
C7_InfThresholdIgnoresExcessInputs ==
    \A i \in Idx : \A e \in AltExcessProbs : \A g \in AltGpdStats :
        threshes[i] = PosInf =>
            /\ LoglikReturned =>
                   loglik(samples, g, moderate_stats, zero_probs, e, threshes,
                          "lognormal").val[i] = out.val[i]
            /\ AllMeanReturned =>
                   all_mean(g, moderate_stats, zero_probs, e, threshes,
                            "lognormal").val[i] = out.val[i]

\* C7 as amended: at a cell whose threshold is +inf, two calls that differ only
\* in gpd_stats return the same value for the cell, from loglik always and from
\* all_mean when every threshold of the batch is +inf.
C7_InfThresholdIgnoresGpdStats ==
    \A i \in Idx : \A g \in AltGpdStats :
        threshes[i] = PosInf =>
            /\ LoglikReturned =>
                   loglik(samples, g, moderate_stats, zero_probs, excess_probs, threshes,
                          "lognormal").val[i] = out.val[i]
            /\ (AllMeanReturned /\ \A j \in Idx : threshes[j] = PosInf) =>
                   all_mean(g, moderate_stats, zero_probs, excess_probs, threshes,
                            "lognormal").val[i] = out.val[i]

\* loglik has returned for a positive sample under an infinite threshold
C7_Witness ==
    /\ LoglikReturned
    /\ \E i \in Idx : threshes[i] = PosInf /\ Gt(samples[i], Zero)
                      /\ out.val[i] # Zero /\ ~isnan(out.val[i])

(***************************************************************************)
(* compute_class_labels on arbitrary arrays (SpecLabels): the observations *)
(* and thresholds range over negative values, zero and positive values.    *)
(***************************************************************************)
LabelSampleVals == {NaN, Num(-1), Zero, Num(1), Num(2)}
LabelThreshVals == {Num(-2), Num(-1), Zero, Num(2)}

InitLabels ==
    /\ samples \in Tensor(LabelSampleVals)
    /\ threshes \in Tensor(LabelThreshVals)
    /\ actual_threshes = threshes
    /\ zero_probs = [i \in Idx |-> ZeroProbVal]
    /\ excess_probs = [i \in Idx |-> ExcessProbVal]
    /\ gpd_stats = [i \in Idx |-> <<Zero, SigmaVal>>]
    /\ moderate_stats = [i \in Idx |-> <<MuVal, VarVal>>]
    /\ flags = NoFlags
    /\ op = "none"
    /\ out = Return(<<>>)
    /\ depth = 0
    /\ samples_in = samples
    /\ threshes_in = threshes

NextLabels == CallComputeClassLabels

SpecLabels == InitLabels /\ [][NextLabels]_vars

\* C5: for every sample y and threshold t, negative ones included,
\* compute_class_labels returns NaN for a NaN y, else 0 when y is exactly 0,
\* else 2 when y exceeds t, else 1.
C5_ClassLabels ==
    op = "compute_class_labels" =>
        \A i \in Idx :
            LET y == samples_in[i]
                t == threshes_in[i]
            IN out.val[i] = IF isnan(y) THEN NaN
                            ELSE IF Eq(y, Zero) THEN Zero
                            ELSE IF Gt(y, t) THEN Two
                            ELSE One

(***************************************************************************)
(* Constraint module.                                                      *)
(***************************************************************************)
\* float32: 1 / (1 + exp(-x)) rounds to 1 once exp(-x) < 2^-25 (x above
\* 17.33) and is 0 once exp(-x) overflows or the quotient underflows
SigmoidOne == Num(1740)
SigmoidZero == Num(-10400)

Sigmoid(x) ==
    IF x.k = "unk" THEN Unk
    ELSE IF isnan(x) THEN NaN
    ELSE IF isinf(x) THEN (IF x.n = 1 THEN One ELSE Zero)
    ELSE IF x = Zero THEN Half
    ELSE IF SurelyGe(x, SigmoidOne) THEN One
    ELSE IF SurelyLe(x, SigmoidZero) THEN Zero
    ELSE Atom("sigmoid", <<x>>)

\* torch.nn.functional.softplus(x, beta) = log(1 + exp(beta * x)) / beta, with
\* the default threshold=20: x itself where beta * x > 20; in float32 it is 0
\* once exp(beta * x) underflows
SoftplusLinear == Num(2000)

Softplus(x, beta) ==
    IF x.k = "unk" THEN Unk
    ELSE IF isnan(x) THEN NaN
    ELSE IF isinf(x) THEN (IF x.n = 1 THEN PosInf ELSE Zero)
    ELSE IF SurelyGt(Mul(x, beta), SoftplusLinear) THEN x
    ELSE IF SurelyLe(Mul(x, beta), ExpUnderflow) THEN Zero
    ELSE Atom("softplus", <<x, beta>>)

\* torch.nn.functional.threshold(x, th, value): x where x > th, value elsewhere
Threshold(x, th, value) ==
    IF x.k = "unk" THEN Unk
    ELSE IF isnan(x) THEN value
    ELSE IF SurelyGt(x, th) THEN x
    ELSE IF SurelyLe(x, th) THEN value
    ELSE Unk

\* eps=0.01 of prob_constraint and eps=1e-2 of pos_constraint
Eps2 == Num(1)
\* the bounds 30 (variance), 40 (GP scale) and 0.9 (GP shape), and beta = 5
VarUpper == Num(3000)
SigmaUpper == Num(4000)
XiUpper == Num(90)
XiBeta == Num(500)
\* ymax of the training configuration: the largest value the GP must cover
Maxis == Num(25000)

\* faulty variant: the sigmoid is not scaled into (eps, 1 - eps)
prob_constraint_unscaled(k) == Sigmoid(k)

prob_constraint(k) == Add(Mul(Sigmoid(k), Sub(One, Mul(Two, Eps2))), Eps2)

\* another func raises ValueError; every caller of the source uses the default
pos_constraint(k, func) ==
    LET pos == IF func = "exp" THEN Exp(k)
               ELSE IF func = "abs" THEN (IF Sign(k) = -1 THEN Neg(k) ELSE k)
               ELSE IF func = "square" THEN Mul(k, k)
               ELSE Unk
    IN Add(pos, Eps2)

upper_thresh_constraint(x, thresh, constrain_positive, beta) ==
    LET o == IF constrain_positive THEN pos_constraint(x, "exp") ELSE x
    IN Add(Neg(Softplus(Add(Neg(o), thresh), beta)), thresh)

\* <<mu, var>> of one cell
lognormal_constraint(mu, var) == <<mu, upper_thresh_constraint(var, VarUpper, TRUE, One)>>

\* the blend weight gp_upper_thresh_constraint puts on the thresholded output
gp_output_weight(x, thresh) ==
    Mul(MinusOne, Threshold(Mul(MinusOne, Threshold(Div(x, thresh), Zero, Zero)),
                            MinusOne, MinusOne))

gp_upper_thresh_constraint(x, thresh, beta) ==
    LET upper_threshed_output == upper_thresh_constraint(x, thresh, FALSE, beta)
        output_weight == gp_output_weight(x, thresh)
    IN Add(Mul(output_weight, upper_threshed_output), Mul(Sub(One, output_weight), x))

\* k1, k2 and initial_density are tensors; initial_density is None when absent
gp_constraint2(k1, k2, maxis, continuous_evt, initial_density) ==
    LET I == DOMAIN k1
        k1p(i) == pos_constraint(k1[i], "exp")
        sigma(i) == IF continuous_evt THEN Div(One, initial_density[i])
                    ELSE upper_thresh_constraint(k2[i], SigmaUpper, TRUE, One)
        xi(i) == Div(Mul(Sub(k1p(i), One), sigma(i)), Add(maxis, Eps6))
    IN IF continuous_evt /\ initial_density = None THEN Raise("AssertionError")
       ELSE Return([i \in I |-> <<gp_upper_thresh_constraint(xi(i), XiUpper, XiBeta), sigma(i)>>])

\* the parameters of def lognormal(samples, mu, var), and the keyword arguments
\* all_constraints passes to it besides the three positional ones
LognormalParams == {"samples", "mu", "var"}
AllConstraintsLognormalKeywords == {"reduction"}

\* faulty variant: every density name is accepted
main_func_supported_any(main_func) == TRUE

main_func_supported(main_func) == main_func = "lognormal"

\* whether all_constraints gets as far as running the body of lognormal, which
\* changes the thresholds tensor in place
all_constraints_runs_lognormal(continuous_evt, main_func, thresholds) ==
    /\ main_func_supported(main_func)
    /\ continuous_evt
    /\ thresholds # None
    /\ AllConstraintsLognormalKeywords \subseteq LognormalParams

\* thresholds is a tensor, or None when not supplied
all_constraints(binaries, gstats, main_stats, maxis, continuous_evt, main_func, thresholds) ==
    LET I == DOMAIN binaries
        b == [i \in I |-> <<prob_constraint(binaries[i][1]), prob_constraint(binaries[i][2])>>]
        ms == [i \in I |-> lognormal_constraint(main_stats[i][1], main_stats[i][2])]
        dens == lognormal(thresholds, [i \in I |-> ms[i][1]], [i \in I |-> ms[i][2]])
        initial_densisty == IF continuous_evt
                            THEN [i \in I |-> Div(One, Exp(dens[i]))]
                            ELSE None
        g == gp_constraint2([i \in I |-> gstats[i][1]], [i \in I |-> gstats[i][2]], maxis,
                            continuous_evt, initial_densisty)
    IN IF ~main_func_supported(main_func) THEN Raise("ValueError")
       ELSE IF continuous_evt /\ main_func # "lognormal" THEN Raise("AssertionError")
       ELSE IF continuous_evt /\ thresholds = None THEN Raise("AssertionError")
       ELSE IF continuous_evt /\ ~(AllConstraintsLognormalKeywords \subseteq LognormalParams)
            THEN Raise("TypeError")
       ELSE IF ~g.ok THEN g
       ELSE Return(<<b, g.val, ms>>)

(***************************************************************************)
(* Calls of the constraint module (SpecCons): the tensors hold raw network *)
(* outputs.                                                                *)
(***************************************************************************)
RawGpd == {<<Zero, Zero>>, <<One, Zero>>}
RawModerate == {<<One, Zero>>, <<One, One>>}
MainFuncs == {"lognormal", "gamma"}
\* a density tensor handed to gp_constraint2 directly
DensityVal == Num(25)

InitCons ==
    /\ samples = [i \in Idx |-> Zero]
    /\ threshes \in Tensor({Zero, Quantile})
    /\ actual_threshes = threshes
    /\ zero_probs = [i \in Idx |-> Zero]
    /\ excess_probs = [i \in Idx |-> One]
    /\ gpd_stats \in Tensor(RawGpd)
    /\ moderate_stats \in Tensor(RawModerate)
    /\ flags = NoFlags
    /\ op = "none"
    /\ out = Return(<<>>)
    /\ depth = 0
    /\ samples_in = samples
    /\ threshes_in = threshes

CallAllConstraints ==
    /\ depth = 0
    /\ \E ce \in BOOLEAN, mf \in MainFuncs, given \in BOOLEAN :
         LET thresholds == IF given THEN threshes ELSE None
         IN /\ flags' = [moderate_func |-> mf, continuous_evt |-> ce,
                         thresholds_given |-> given, initial_density_given |-> FALSE]
            /\ out' = all_constraints([i \in Idx |-> <<zero_probs[i], excess_probs[i]>>],
                                      gpd_stats, moderate_stats, Maxis, ce, mf, thresholds)
            /\ threshes' = IF all_constraints_runs_lognormal(ce, mf, thresholds)
                           THEN lognormal_samples(threshes) ELSE threshes
    /\ op' = "all_constraints"
    /\ samples_in' = samples
    /\ threshes_in' = threshes
    /\ UNCHANGED <<samples, params, depth>>

CallGpConstraint2 ==
    /\ depth = 0
    /\ \E ce \in BOOLEAN, given \in BOOLEAN :
         /\ flags' = [moderate_func |-> "lognormal", continuous_evt |-> ce,
                      thresholds_given |-> FALSE, initial_density_given |-> given]
         /\ out' = gp_constraint2([i \in Idx |-> gpd_stats[i][1]],
                                  [i \in Idx |-> gpd_stats[i][2]], Maxis, ce,
                                  IF given THEN [i \in Idx |-> DensityVal] ELSE None)
    /\ op' = "gp_constraint2"
    /\ samples_in' = samples
    /\ threshes_in' = threshes
    /\ UNCHANGED <<samples, threshes, params, depth>>

NextCons == CallAllConstraints \/ CallGpConstraint2

SpecCons == InitCons /\ [][NextCons]_vars

\* the density all_constraints is to derive the GP scale from
InitialDensity(i) ==
    Div(One, Exp(lognormal(threshes_in,
                           [j \in Idx |-> moderate_stats[j][1]],
                           [j \in Idx |-> lognormal_constraint(moderate_stats[j][1],
                                                               moderate_stats[j][2])[2]])[i]))

\* C8: all_constraints with continuous_evt = True, main_func = 'lognormal' and
\* a thresholds tensor returns the triple (binaries, gpd_stats, main_stats),
\* the GP scale of every cell being 1/initialDensity.
C8_ContinuousModeReturnsTriple ==
    (op = "all_constraints" /\ flags.continuous_evt /\ flags.moderate_func = "lognormal"
        /\ flags.thresholds_given) =>
        /\ out.ok
        /\ Len(out.val) = 3
        /\ \A i \in Idx : out.val[2][i][2] = Div(One, InitialDensity(i))

\* C9: all_constraints raises when main_func is not 'lognormal' or when
\* continuous_evt is set and no thresholds are supplied; gp_constraint2 raises
\* when continuous_evt is set and initial_density is absent; without
\* continuous_evt and with main_func = 'lognormal' all_constraints returns the
\* full triple, one entry per cell in each part.
C9_ConfigurationErrors ==
    /\ op = "all_constraints" =>
          /\ (flags.moderate_func # "lognormal"
                \/ (flags.continuous_evt /\ ~flags.thresholds_given)) =>
                 (~out.ok /\ out.err \in {"ValueError", "AssertionError"} /\ out.val = <<>>)
          /\ (~flags.continuous_evt /\ flags.moderate_func = "lognormal") =>
                 (out.ok /\ Len(out.val) = 3
                    /\ \A p \in 1..3 : DOMAIN out.val[p] = Idx)
    /\ op = "gp_constraint2" =>
          /\ (flags.continuous_evt /\ ~flags.initial_density_given) => ~out.ok
          /\ ~flags.continuous_evt => out.ok

\* all_constraints has been called with an unsupported density name
C9_Witness ==
    /\ op = "all_constraints"
    /\ flags.moderate_func = "gamma"
    /\ out = Raise("ValueError")

(***************************************************************************)
(* Metric reducers.  The first input is held in samples, the second in     *)
(* threshes; the entries are class labels or probabilities.                *)
(***************************************************************************)
no_nans(a, b) == [i \in DOMAIN a |-> ~isnan(a[i]) /\ ~isnan(b[i])]

\* a[mask]: the entries of a at the positions where mask holds, in order
RECURSIVE MaskedFrom(_, _, _)
MaskedFrom(a, mask, i) ==
    IF i > Len(a) THEN <<>>
    ELSE (IF mask[i] THEN <<a[i]>> ELSE <<>>) \o MaskedFrom(a, mask, i + 1)

Masked(a, mask) == MaskedFrom(a, mask, 1)

RECURSIVE SumSeq(_)
SumSeq(q) == IF q = <<>> THEN Zero ELSE Add(Head(q), SumSeq(Tail(q)))

\* np.mean: NaN (0/0) on an empty array
Mean(q) == Div(SumSeq(q), Num(100 * Len(q)))

\* np.nanmean: the mean of the entries that are not NaN
NanMean(q) == Mean(Masked(q, [i \in DOMAIN q |-> ~isnan(q[i])]))

\* the bindings of the name pearsonr in the module's namespace, in source
\* order: the import from scipy.stats, then the def of the reducer itself
PearsonrBindings == <<"scipy.stats.pearsonr", "util.pearsonr">>

\* a global name is looked up when the call runs: the last binding holds
GlobalPearsonr == PearsonrBindings[Len(PearsonrBindings)]

accuracy(a, b) ==
    LET nonan_mask == no_nans(a, b)
    IN Return(Mean(Masked([i \in DOMAIN a |-> BoolNum(Eq(a[i], b[i]))], nonan_mask)))

\* sklearn's f1_score as an uninterpreted function of the arrays handed to it
f1(tru, pred) ==
    LET nonan_mask == no_nans(tru, pred)
        t == Masked(tru, nonan_mask)
        p == Masked(pred, nonan_mask)
    IN Return(<<Atom("f1_score_micro", t \o p), Atom("f1_score_macro", t \o p)>>)

\* sklearn's roc_auc_score rejects scores that contain NaN with a ValueError
auc(tru_labels, pred_probs) ==
    LET nonans_mask == [i \in DOMAIN tru_labels |-> ~isnan(tru_labels[i])]
        t == Masked(tru_labels, nonans_mask)
        p == Masked(pred_probs, nonans_mask)
    IN IF \E i \in DOMAIN p : isnan(p[i]) THEN Raise("ValueError")
       ELSE Return(<<Atom("roc_auc_score_ovo", t \o p), Atom("roc_auc_score_ovr", t \o p)>>)

brier_score(x, y) ==
    Return(NanMean([i \in DOMAIN x |-> Mul(Sub(x[i], y[i]), Sub(x[i], y[i]))]))

MetricVals == {NaN, Zero, One}

InitMetrics ==
    /\ samples \in Tensor(MetricVals)
    /\ threshes \in Tensor(MetricVals)
    /\ actual_threshes = [i \in Idx |-> Quantile]
    /\ zero_probs = [i \in Idx |-> ZeroProbVal]
    /\ excess_probs = [i \in Idx |-> ExcessProbVal]
    /\ gpd_stats = [i \in Idx |-> <<Zero, SigmaVal>>]
    /\ moderate_stats = [i \in Idx |-> <<MuVal, VarVal>>]
    /\ flags = NoFlags
    /\ op = "none"
    /\ out = Return(<<>>)
    /\ depth = 0
    /\ samples_in = samples
    /\ threshes_in = threshes

CallAccuracy ==
    /\ depth = 0
    /\ out' = accuracy(samples, threshes)
    /\ op' = "accuracy"
    /\ flags' = NoFlags
    /\ samples_in' = samples
    /\ threshes_in' = threshes
    /\ UNCHANGED <<samples, threshes, params, depth>>

CallF1 ==
    /\ depth = 0
    /\ out' = f1(samples, threshes)
    /\ op' = "f1"
    /\ flags' = NoFlags
    /\ samples_in' = samples
    /\ threshes_in' = threshes
    /\ UNCHANGED <<samples, threshes, params, depth>>

CallAuc ==
    /\ depth = 0
    /\ out' = auc(samples, threshes)
    /\ op' = "auc"
    /\ flags' = NoFlags
    /\ samples_in' = samples
    /\ threshes_in' = threshes
    /\ UNCHANGED <<samples, threshes, params, depth>>

CallBrierScore ==
    /\ depth = 0
    /\ out' = brier_score(samples, threshes)
    /\ op' = "brier_score"
    /\ flags' = NoFlags
    /\ samples_in' = samples
    /\ threshes_in' = threshes
    /\ UNCHANGED <<samples, threshes, params, depth>>

\* the caller enters pearsonr: the first frame of the call
CallPearsonr ==
    /\ depth = 0
    /\ depth' = 1
    /\ op' = "pearsonr"
    /\ out' = Return(<<>>)
    /\ flags' = NoFlags
    /\ samples_in' = samples
    /\ threshes_in' = threshes
    /\ UNCHANGED <<samples, threshes, params>>

\* the body of pearsonr: to_np, the mask (assigned and not read again), then
\* the call of whatever the global name pearsonr is bound to
PearsonrBody ==
    /\ op = "pearsonr"
    /\ depth > 0
    /\ LET mask == no_nans(samples, threshes)
       IN IF GlobalPearsonr = "util.pearsonr"
          THEN IF depth < RecursionLimit
               THEN /\ depth' = depth + 1
                    /\ out' = out
               ELSE /\ depth' = 0
                    /\ out' = Raise("RecursionError")
          ELSE /\ depth' = 0
               /\ out' = Return(Atom("scipy_pearsonr", samples \o threshes))
    /\ UNCHANGED <<samples, threshes, params, flags, op, samples_in, threshes_in>>

NextMetrics ==
    CallAccuracy \/ CallF1 \/ CallAuc \/ CallBrierScore \/ CallPearsonr \/ PearsonrBody

SpecMetrics == InitMetrics /\ [][NextMetrics]_vars

JointA == Masked(samples_in, no_nans(samples_in, threshes_in))
JointB == Masked(threshes_in, no_nans(samples_in, threshes_in))

\* C10: every metric reducer returns its statistic computed over exactly the
\* entries where both inputs are non-NaN (accuracy: the share of matches; f1
\* and auc: the library score of the jointly masked arrays; pearsonr: the
\* correlation of the jointly masked arrays; brier_score: the mean squared
\* difference), so a NaN in either input never makes the call fail.
C10_ReducersUseJointMask ==
    depth = 0 =>
        /\ op = "accuracy" =>
              out = Return(Mean([i \in DOMAIN JointA |-> BoolNum(JointA[i] = JointB[i])]))
        /\ op = "f1" =>
              out = Return(<<Atom("f1_score_micro", JointA \o JointB),
                             Atom("f1_score_macro", JointA \o JointB)>>)
        /\ op = "auc" =>
              out = Return(<<Atom("roc_auc_score_ovo", JointA \o JointB),
                             Atom("roc_auc_score_ovr", JointA \o JointB)>>)
        /\ op = "pearsonr" =>
              out = Return(Atom("scipy_pearsonr", JointA \o JointB))
        /\ op = "brier_score" =>
              out = Return(Mean([i \in DOMAIN JointA |->
                                   Mul(Sub(JointA[i], JointB[i]), Sub(JointA[i], JointB[i]))]))

\* the three reducers that do restrict themselves to the joint mask
C10_AccuracyF1BrierUseJointMask ==
    /\ op = "accuracy" =>
          out = Return(Mean([i \in DOMAIN JointA |-> BoolNum(JointA[i] = JointB[i])]))
    /\ op = "f1" =>
          out = Return(<<Atom("f1_score_micro", JointA \o JointB),
                         Atom("f1_score_macro", JointA \o JointB)>>)
    /\ op = "brier_score" =>
          out = Return(Mean([i \in DOMAIN JointA |->
                               Mul(Sub(JointA[i], JointB[i]), Sub(JointA[i], JointB[i]))]))

\* no call of pearsonr returns a value
C10_PearsonrNeverReturns == (op = "pearsonr" /\ depth = 0) => out = Raise("RecursionError")

\* auc fails exactly when a score is NaN where the label is not
C10_AucFailsOnNaNScore ==
    op = "auc" =>
        (~out.ok <=> \E i \in Idx : ~isnan(samples_in[i]) /\ isnan(threshes_in[i]))

\* C11: every call of pearsonr terminates and returns a single scalar
\* correlation; it does not call itself, so no call is ever nested inside
\* another call of pearsonr.
C11_PearsonrTerminatesWithScalar ==
    op = "pearsonr" =>
        /\ depth <= 1
        /\ depth = 0 => (out.ok /\ out.val # <<>> /\ IsFin(out.val))

(***************************************************************************)
(* The constraint functions on raw network outputs (SpecRaw): samples      *)
(* holds the raw tensor, threshes the mu column of lognormal_constraint.   *)
(* A raw output is any float: moderate, huge, infinite or NaN.             *)
(***************************************************************************)
RawVals == {NaN, NegInf, Num(-100000), Num(-90), Zero, Num(45), Num(90), Num(100000), PosInf}
RawMuVals == {Zero, One}

InitRaw ==
    /\ samples \in Tensor(RawVals)
    /\ threshes \in Tensor(RawMuVals)
    /\ actual_threshes = threshes
    /\ zero_probs = [i \in Idx |-> ZeroProbVal]
    /\ excess_probs = [i \in Idx |-> ExcessProbVal]
    /\ gpd_stats = [i \in Idx |-> <<Zero, SigmaVal>>]
    /\ moderate_stats = [i \in Idx |-> <<MuVal, VarVal>>]
    /\ flags = NoFlags
    /\ op = "none"
    /\ out = Return(<<>>)
    /\ depth = 0
    /\ samples_in = samples
    /\ threshes_in = threshes

CallProbConstraint ==
    /\ depth = 0
    /\ out' = Return([i \in Idx |-> prob_constraint(samples[i])])
    /\ op' = "prob_constraint"
    /\ flags' = NoFlags
    /\ samples_in' = samples
    /\ threshes_in' = threshes
    /\ UNCHANGED <<samples, threshes, params, depth>>

CallLognormalConstraint ==
    /\ depth = 0
    /\ out' = Return([i \in Idx |-> lognormal_constraint(threshes[i], samples[i])])
    /\ op' = "lognormal_constraint"
    /\ flags' = NoFlags
    /\ samples_in' = samples
    /\ threshes_in' = threshes
    /\ UNCHANGED <<samples, threshes, params, depth>>

CallGpUpperThreshConstraint ==
    /\ depth = 0
    /\ out' = Return([i \in Idx |-> gp_upper_thresh_constraint(samples[i], XiUpper, XiBeta)])
    /\ op' = "gp_upper_thresh_constraint"
    /\ flags' = NoFlags
    /\ samples_in' = samples
    /\ threshes_in' = threshes
    /\ UNCHANGED <<samples, threshes, params, depth>>

NextRaw == CallProbConstraint \/ CallLognormalConstraint \/ CallGpUpperThreshConstraint

SpecRaw == InitRaw /\ [][NextRaw]_vars

\* clamp(x / thresh, 0, 1)
ClampedWeight(x, thresh) ==
    IF Lt(x, Zero) \/ Eq(x, Zero) THEN Zero
    ELSE IF Gt(x, thresh) \/ Eq(x, thresh) THEN One
    ELSE Div(x, thresh)

\* C12: gp_upper_thresh_constraint(x, 0.9, beta) returns x unchanged for every
\* x < 0, returns a value not exceeding 0.9 for every x, and blends with the
\* weight clamp(x / 0.9, 0, 1).
C12_GpShapeBounded ==
    op = "gp_upper_thresh_constraint" =>
        \A i \in Idx :
            LET x == samples_in[i]
            IN ~isnan(x) =>
                 /\ Lt(x, Zero) => out.val[i] = x
                 /\ SurelyLe(out.val[i], XiUpper)
                 /\ gp_output_weight(x, XiUpper) = ClampedWeight(x, XiUpper)

\* the same for finite x alone
C12_GpShapeBoundedOnFinite ==
    op = "gp_upper_thresh_constraint" =>
        \A i \in Idx :
            LET x == samples_in[i]
            IN IsFin(x) =>
                 /\ Lt(x, Zero) => out.val[i] = x
                 /\ SurelyLe(out.val[i], XiUpper)
                 /\ gp_output_weight(x, XiUpper) = ClampedWeight(x, XiUpper)

\* C13 as stated: for every raw k, prob_constraint(k) lies strictly inside
\* (eps, 1 - eps): it never equals eps or 1 - eps.
C13_ProbStrictlyInside ==
    op = "prob_constraint" =>
        \A i \in Idx :
            ~isnan(samples_in[i]) =>
                /\ SurelyGt(out.val[i], Eps2)
                /\ SurelyLt(out.val[i], Sub(One, Eps2))

\* C13 as amended: for every raw k that is not NaN, prob_constraint(k) lies in
\* the closed interval [eps, 1 - eps], so it is never 0 or 1; it is strictly
\* inside whenever the sigmoid of k is not saturated.
C13_ProbInsideClosed ==
    op = "prob_constraint" =>
        \A i \in Idx :
            LET k == samples_in[i]
                p == out.val[i]
            IN ~isnan(k) =>
                 /\ SurelyGe(p, Eps2) /\ SurelyLe(p, Sub(One, Eps2))
                 /\ SurelyGt(p, Zero) /\ SurelyLt(p, One)
                 /\ (SurelyLt(k, SigmoidOne) /\ SurelyGt(k, SigmoidZero)) =>
                        (SurelyGt(p, Eps2) /\ SurelyLt(p, Sub(One, Eps2)))

\* a saturated and a moderate raw input: the first sits on 1 - eps
C13_Witness ==
    /\ op = "prob_constraint"
    /\ \E i \in Idx : samples_in[i] = Num(100000) /\ out.val[i] = Sub(One, Eps2)
    /\ \E i \in Idx : samples_in[i] = Num(45) /\ SurelyLt(out.val[i], Sub(One, Eps2))

\* C14: for every raw (mu, var), lognormal_constraint returns mu unchanged and
\* a variance strictly inside (0, 30), whatever the magnitude of the raw var.
C14_VarianceStrictlyInside ==
    op = "lognormal_constraint" =>
        \A i \in Idx :
            ~isnan(samples_in[i]) =>
                /\ out.val[i][1] = threshes_in[i]
                /\ SurelyGt(out.val[i][2], Zero)
                /\ SurelyLt(out.val[i][2], VarUpper)

\* the same for raw var values below the overflow of exp
C14_VarianceInsideOnModerate ==
    op = "lognormal_constraint" =>
        \A i \in Idx :
            (~isnan(samples_in[i]) /\ SurelyLt(samples_in[i], One)) =>
                /\ out.val[i][1] = threshes_in[i]
                /\ SurelyGt(out.val[i][2], Zero)
                /\ SurelyLt(out.val[i][2], VarUpper)

(***************************************************************************)
(* loglik on parameters that may be NaN (SpecParams): the observations are *)
(* present, and one or more parameter columns are NaN across the batch.    *)
(***************************************************************************)
PresentSampleVals == {Zero, Num(1), Num(3)}

InitParams ==
    /\ samples \in Tensor(PresentSampleVals)
    /\ threshes = [i \in Idx |-> Quantile]
    /\ actual_threshes = threshes
    /\ \E zp \in {ZeroProbVal, NaN} : zero_probs = [i \in Idx |-> zp]
    /\ \E ep \in {ExcessProbVal, NaN} : excess_probs = [i \in Idx |-> ep]
    /\ \E g \in {<<Zero, SigmaVal>>, <<Num(10), SigmaVal>>, <<NaN, SigmaVal>>, <<Zero, NaN>>} :
           gpd_stats = [i \in Idx |-> g]
    /\ \E m \in {<<MuVal, VarVal>>, <<NaN, VarVal>>, <<MuVal, NaN>>} :
           moderate_stats = [i \in Idx |-> m]
    /\ flags = NoFlags
    /\ op = "none"
    /\ out = Return(<<>>)
    /\ depth = 0
    /\ samples_in = samples
    /\ threshes_in = threshes

NextParams == CallLoglik

SpecParams == InitParams /\ [][NextParams]_vars

\* a parameter that an applicable term of cell i reads is NaN
UsesNaNParameter(i) ==
    LET s == samples[i]
        t == threshes[i]
    IN IF Eq(s, Zero) THEN isnan(zero_probs[i])
       ELSE \/ isnan(zero_probs[i])
            \/ isnan(excess_probs[i])
            \/ Lt(s, t) /\ (isnan(moderate_stats[i][1]) \/ isnan(moderate_stats[i][2]))
            \/ Gt(s, t) /\ (isnan(gpd_stats[i][1]) \/ isnan(gpd_stats[i][2]))

\* C15: with a non-missing sample, loglik returns NaN at a cell exactly when a
\* parameter that an applicable term of the cell depends on is NaN; the NaN
\* is never replaced by a contribution of 0.
C15_NaNParameterPropagates ==
    LoglikReturned =>
        \A i \in Idx : ~isnan(samples[i]) => (isnan(out.val[i]) <=> UsesNaNParameter(i))

\* what the code does: with non-missing samples loglik never returns NaN,
\* whichever parameters are NaN
C15_NaNParameterZeroFilled ==
    LoglikReturned => \A i \in Idx : ~isnan(out.val[i])

(***************************************************************************)
(* all_cdf on observations of either sign (SpecCdf).                       *)
(***************************************************************************)
CdfSampleVals == {Num(-1), Zero, Num(1), Num(2), Num(3)}

InitCdf ==
    /\ samples \in Tensor(CdfSampleVals)
    /\ threshes \in Tensor(ThreshVals)
    /\ actual_threshes = ActualOf(threshes)
    /\ zero_probs = [i \in Idx |-> ZeroProbVal]
    /\ excess_probs = [i \in Idx |-> ExcessProbVal]
    /\ \E xi \in XiVals : gpd_stats = [i \in Idx |-> <<xi, SigmaVal>>]
    /\ moderate_stats = [i \in Idx |-> <<MuVal, VarVal>>]
    /\ flags = NoFlags
    /\ op = "none"
    /\ out = Return(<<>>)
    /\ depth = 0
    /\ samples_in = samples
    /\ threshes_in = threshes

NextCdf == CallAllCdf

SpecCdf == InitCdf /\ [][NextCdf]_vars

\* the three masses of the mixture CDF at cell i
ZeroMass(i) == IF Ge(samples[i], Zero) THEN zero_probs[i] ELSE Zero
ModerateMass(i) ==
    IF Gt(samples[i], Zero)
    THEN Mul(Mul(Sub(One, zero_probs[i]), Sub(One, excess_probs[i])),
             threshed_lognorm_cdf(samples[i], moderate_stats[i][1], moderate_stats[i][2],
                                  None, threshes[i]))
    ELSE Zero
GpMass(i) ==
    IF Gt(samples[i], threshes[i])
    THEN Mul(Mul(Sub(One, zero_probs[i]), excess_probs[i]),
             gpd_cdf(samples[i], gpd_stats[i][1], gpd_stats[i][2], actual_threshes[i]))
    ELSE Zero

\* C16: all_cdf returns at every cell the zero mass (for a sample >= 0) plus
\* the truncated lognormal mass (for a sample > 0) plus the GP mass shifted by
\* the actual threshold (for a sample strictly above the effective threshold);
\* a negative sample yields 0, a sample of 0 yields zero_prob, and a sample at
\* the effective threshold gets no GP mass.
C16_AllCdfContributions ==
    AllCdfReturned =>
        \A i \in Idx :
            /\ out.val[i] = Add(Add(ZeroMass(i), ModerateMass(i)), GpMass(i))
            /\ Lt(samples[i], Zero) => out.val[i] = Zero
            /\ Eq(samples[i], Zero) => out.val[i] = zero_probs[i]
            /\ Eq(samples[i], threshes[i]) => out.val[i] = Add(ZeroMass(i), ModerateMass(i))

\* a cell at its effective threshold next to a cell beyond it
C16_Witness ==
    /\ AllCdfReturned
    /\ \E i \in Idx : Eq(samples[i], threshes[i]) /\ IsFin(out.val[i])
    /\ \E i \in Idx : Gt(samples[i], threshes[i]) /\ GpMass(i) # Zero

(***************************************************************************)
(* threshed_lognorm_cdf on its own (SpecTrunc): samples holds the values,  *)
(* actual_threshes the lower and threshes the upper truncation point; an   *)
(* entry None stands for an argument the caller omits.                     *)
(***************************************************************************)
TruncVals == {Zero, Num(1), Num(2), Num(3)}
LowerVals == {None, Zero, Num(2)}
UpperVals == {None, Zero, Num(2), Num(3)}

InitTrunc ==
    /\ samples \in Tensor(TruncVals)
    /\ \E lo \in LowerVals, up \in UpperVals :
           /\ (lo # None /\ up # None) => ~Gt(lo, up)
           /\ actual_threshes = [i \in Idx |-> lo]
           /\ threshes = [i \in Idx |-> up]
    /\ zero_probs = [i \in Idx |-> ZeroProbVal]
    /\ excess_probs = [i \in Idx |-> ExcessProbVal]
    /\ gpd_stats = [i \in Idx |-> <<Zero, SigmaVal>>]
    /\ moderate_stats = [i \in Idx |-> <<MuVal, VarVal>>]
    /\ flags = NoFlags
    /\ op = "none"
    /\ out = Return(<<>>)
    /\ depth = 0
    /\ samples_in = samples
    /\ threshes_in = threshes

CallThreshedLognormCdf ==
    /\ depth = 0
    /\ out' = Return([i \in Idx |->
                        threshed_lognorm_cdf(samples[i], moderate_stats[i][1],
                                             moderate_stats[i][2], actual_threshes[i],
                                             threshes[i])])
    /\ op' = "threshed_lognorm_cdf"
    /\ flags' = NoFlags
    /\ samples_in' = samples
    /\ threshes_in' = threshes
    /\ UNCHANGED <<samples, threshes, params, depth>>

NextTrunc == CallThreshedLognormCdf

SpecTrunc == InitTrunc /\ [][NextTrunc]_vars

\* the normalizing denominator CDF(upper) - CDF(lower) of cell i
TruncDenominator(i) ==
    Sub(IF threshes[i] = None THEN One
        ELSE lognorm_cdf(threshes[i], moderate_stats[i][1], moderate_stats[i][2]),
        IF actual_threshes[i] = None THEN Zero
        ELSE lognorm_cdf(actual_threshes[i], moderate_stats[i][1], moderate_stats[i][2]))

\* C17: threshed_lognorm_cdf returns 0 below lower, 1 above upper, and 0
\* wherever the denominator CDF(upper) - CDF(lower) is exactly 0, the last rule
\* overriding the other two; with lower and upper omitted the denominator is 1
\* and the plain lognormal CDF is returned.
C17_TruncatedCdfClamps ==
    op = "threshed_lognorm_cdf" =>
        \A i \in Idx :
            LET v == samples[i]
                lo == actual_threshes[i]
                up == threshes[i]
            IN /\ Eq(TruncDenominator(i), Zero) => out.val[i] = Zero
               /\ (lo # None /\ Lt(v, lo)) => out.val[i] = Zero
               /\ (up # None /\ Gt(v, up) /\ ~Eq(TruncDenominator(i), Zero)) => out.val[i] = One
               /\ (lo = None /\ up = None) =>
                      /\ TruncDenominator(i) = One
                      /\ out.val[i] = lognorm_cdf(v, moderate_stats[i][1], moderate_stats[i][2])

\* a value above upper on an empty truncation interval: the result is 0
C17_Witness ==
    /\ op = "threshed_lognorm_cdf"
    /\ \E i \in Idx : /\ threshes[i] # None
                      /\ Gt(samples[i], threshes[i])
                      /\ Eq(TruncDenominator(i), Zero)
                      /\ out.val[i] = Zero

(***************************************************************************)
(* gpd on its own (SpecGpd): samples holds the excesses, gpd_stats the     *)
(* shape and scale of every entry.                                         *)
(***************************************************************************)
ExcessVals == {NaN, Zero, Num(1), Num(3)}
GpdShapeVals == {NaN, Zero, Num(10), Num(-10)}

InitGpd ==
    /\ samples \in Tensor(ExcessVals)
    /\ threshes = [i \in Idx |-> Quantile]
    /\ actual_threshes = threshes
    /\ zero_probs = [i \in Idx |-> ZeroProbVal]
    /\ excess_probs = [i \in Idx |-> ExcessProbVal]
    /\ \E x \in Tensor(GpdShapeVals) : gpd_stats = [i \in Idx |-> <<x[i], SigmaVal>>]
    /\ moderate_stats = [i \in Idx |-> <<MuVal, VarVal>>]
    /\ flags = NoFlags
    /\ op = "none"
    /\ out = Return(<<>>)
    /\ depth = 0
    /\ samples_in = samples
    /\ threshes_in = threshes

CallGpd ==
    /\ depth = 0
    /\ out' = Return(gpd(samples, [i \in Idx |-> gpd_stats[i][1]],
                         [i \in Idx |-> gpd_stats[i][2]]))
    /\ op' = "gpd"
    /\ flags' = NoFlags
    /\ samples_in' = samples
    /\ threshes_in' = threshes
    /\ UNCHANGED <<samples, threshes, params, depth>>

NextGpd == CallGpd

SpecGpd == InitGpd /\ [][NextGpd]_vars

\* -log(sigma) - excess / sigma
GpdExponential(excess, sigma) == Neg(Add(Log(sigma), Mul(Div(One, sigma), excess)))
\* -log(sigma) - (1 + 1/xi) * log(1 + xi * excess / sigma)
GpdGeneral(excess, xi, sigma) ==
    Neg(Add(Log(sigma), Mul(Add(One, Div(One, xi)),
                            Log(Add(One, Div(Mul(xi, excess), sigma))))))

\* C18: gpd evaluates every entry with one branch, the exponential formula
\* where xi == 0 and the general formula where xi != 0; its output is NaN
\* exactly where the excess or xi is NaN; and the value of an entry does not
\* depend on the other entries.
C18_GpdBranchesAndNaN ==
    op = "gpd" =>
        \A i \in Idx :
            LET e == samples[i]
                xi == gpd_stats[i][1]
                sigma == gpd_stats[i][2]
            IN /\ isnan(out.val[i]) <=> (isnan(e) \/ isnan(xi))
               /\ (~isnan(e) /\ Eq(xi, Zero)) => out.val[i] = GpdExponential(e, sigma)
               /\ (~isnan(e) /\ ~isnan(xi) /\ Ne(xi, Zero)) => out.val[i] = GpdGeneral(e, xi, sigma)
               /\ out.val[i] = gpd(<<e>>, <<xi>>, <<sigma>>)[1]

\* a NaN excess under xi = 0 next to an entry that is computed
C18_Witness ==
    /\ op = "gpd"
    /\ \E i \in Idx : isnan(samples[i]) /\ Eq(gpd_stats[i][1], Zero) /\ isnan(out.val[i])
    /\ \E i \in Idx : ~isnan(samples[i]) /\ Ne(gpd_stats[i][1], Zero) /\ IsFin(out.val[i])

\* C19: compute_class_labels leaves its inputs unchanged: the caller's y
\* still holds NaN wherever it held NaN before the call, and threshes is
\* unmodified.
C19_ClassLabelsLeavesInputs ==
    op = "compute_class_labels" =>
        /\ \A i \in Idx : isnan(samples_in[i]) => isnan(samples[i])
        /\ samples = samples_in
        /\ threshes = threshes_in

\* the part of C19 that holds: threshes is never written, and y changes only
\* at its NaN positions, which become 0
C19_OnlyNaNOverwritten ==
    op = "compute_class_labels" =>
        /\ threshes = threshes_in
        /\ \A i \in Idx : samples[i] # samples_in[i] =>
               isnan(samples_in[i]) /\ samples[i] = Zero

(***************************************************************************)
(* Frame of the likelihood functions (SpecFrame): lognormal and            *)
(* threshed_lognorm called on the caller's samples, and loglik.            *)
(***************************************************************************)
FrameSampleVals == {NaN, Zero, Num(1), Num(2), Num(3)}

InitFrame ==
    /\ samples \in Tensor(FrameSampleVals)
    /\ threshes = [i \in Idx |-> Quantile]
    /\ actual_threshes = threshes
    /\ zero_probs = [i \in Idx |-> ZeroProbVal]
    /\ excess_probs = [i \in Idx |-> ExcessProbVal]
    /\ gpd_stats = [i \in Idx |-> <<Zero, SigmaVal>>]
    /\ moderate_stats = [i \in Idx |-> <<MuVal, VarVal>>]
    /\ flags = NoFlags
    /\ op = "none"
    /\ out = Return(<<>>)
    /\ depth = 0
    /\ samples_in = samples
    /\ threshes_in = threshes

CallLognormal ==
    /\ depth = 0
    /\ out' = Return(lognormal(samples, [i \in Idx |-> moderate_stats[i][1]],
                               [i \in Idx |-> moderate_stats[i][2]]))
    /\ samples' = lognormal_samples(samples)
    /\ op' = "lognormal"
    /\ flags' = NoFlags
    /\ samples_in' = samples
    /\ threshes_in' = threshes
    /\ UNCHANGED <<threshes, params, depth>>

CallThreshedLognorm ==
    /\ depth = 0
    /\ out' = Return(threshed_lognorm(samples, threshes,
                                      [i \in Idx |-> moderate_stats[i][1]],
                                      [i \in Idx |-> moderate_stats[i][2]]))
    /\ samples' = lognormal_samples(samples)
    /\ op' = "threshed_lognorm"
    /\ flags' = NoFlags
    /\ samples_in' = samples
    /\ threshes_in' = threshes
    /\ UNCHANGED <<threshes, params, depth>>

NextFrame == CallLognormal \/ CallThreshedLognorm \/ CallLoglik

SpecFrame == InitFrame /\ [][NextFrame]_vars

\* C20: lognormal, threshed_lognorm and loglik do not modify the samples the
\* caller passes: after the call the caller's samples still contain their
\* original zeros.
C20_SamplesUnchanged ==
    op \in {"lognormal", "threshed_lognorm", "loglik"} =>
        /\ samples = samples_in
        /\ threshes = threshes_in

\* the part of C20 that holds: loglik leaves its samples unchanged (lognormal
\* writes to loglik's own nonzeros tensor), and a direct call changes only the
\* exact zeros, to the placeholder
C20_LoglikLeavesSamples ==
    /\ op = "loglik" => samples = samples_in
    /\ op \in {"lognormal", "threshed_lognorm"} =>
           \A i \in Idx : samples[i] # samples_in[i] =>
               samples_in[i] = Zero /\ samples[i] = ZeroPlaceholder

====
